---- MODULE Spec2Model ----
(***************************************************************************)
(* Model of the ONNX importer's quantized convolution conversion,          *)
(* src/ngraph/frontend/onnx_import/op/quant_conv.cpp: quant_conv() and its *)
(* helper make_ng_quant_conv().  One behaviour of the model is one         *)
(* conversion call; the graph nodes the call builds (Slice, the quantized  *)
(* convolution builders, Concat) are recorded in the order they are built. *)
(* C++ axis k of a shape is index k+1 of the TLA+ sequence.                *)
(***************************************************************************)
EXTENDS Integers, Sequences, FiniteSets, TLC

\* ---------------------------------------------------------------- bounds
MaxGroups == 4
MaxNegGroups == 1
MaxChannels == 8
MaxScale == 2
MaxStride == 2

VARIABLES
    pc,                 \* position of the conversion call
    groups,             \* int64_t groups, the "group" attribute
    inputs,             \* node.get_ng_inputs(), 8 or 9 nodes
    dataShape,          \* data->get_shape()
    filterShape,        \* filters->get_shape()
    filterType,         \* filters->get_element_type()
    attr_strides,       \* the operator's stride attribute
    op_scale,           \* OpScale argument of make_ng_quant_conv
    bias,               \* bias argument of make_ng_quant_conv (node or NullPtr)
    group,              \* loop counter of the group loop
    data_lower_bounds, data_upper_bounds,
    filters_lower_bounds, filters_upper_bounds,
    sliced_data, sliced_filters,
    convolution_nodes,  \* NodeVector of the per-group convolutions
    slices,             \* every op::Slice node built, in order
    calls,              \* every quantized convolution builder call, in order
    concats,            \* every op::Concat node built, in order
    conv_node,          \* the node quant_conv returns
    leaves,             \* the emission branches that were entered
    dispatched          \* TRUE once the bias / fast path decision is entered

vars == <<pc, groups, inputs, dataShape, filterShape, filterType, attr_strides,
          op_scale, bias, group, data_lower_bounds, data_upper_bounds,
          filters_lower_bounds, filters_upper_bounds, sliced_data,
          sliced_filters, convolution_nodes, slices, calls, concats, conv_node,
          leaves, dispatched>>

\* ------------------------------------------------------------ data model
NullPtr == [pos |-> 0 - 1, val |-> 0, is_null |-> TRUE]

NoTensor == [node |-> NullPtr, lower |-> <<>>, upper |-> <<>>, sliced |-> FALSE]

OpScale(data_scale, filter_scale, output_scale) ==
    [data_scale |-> data_scale, filter_scale |-> filter_scale,
     output_scale |-> output_scale]

NoScale == OpScale(NullPtr, NullPtr, NullPtr)

InputAt(i) == inputs[i + 1]

Zeros(n) == [i \in 1..n |-> 0]

\* a node passed whole to a builder
Whole(node, shape) ==
    [node |-> node, lower |-> Zeros(Len(shape)), upper |-> shape, sliced |-> FALSE]

\* std::make_shared<ngraph::op::Slice>(node, lower, upper)
Slice(node, lower, upper) ==
    [node |-> node, lower |-> lower, upper |-> upper, sliced |-> TRUE]

Strides == <<attr_strides>>
FilterDilations == <<1>>
PaddingBelow == <<0>>
PaddingAbove == <<0>>
KernelShape == SubSeq(filterShape, 3, Len(filterShape))
DataDilations == [i \in 1..Len(KernelShape) |-> 1]

Geometry ==
    [strides |-> Strides, filter_dilations |-> FilterDilations,
     padding_below |-> PaddingBelow, padding_above |-> PaddingAbove,
     data_dilations |-> DataDilations]

\* builder::quantization::QuantizedLinearConvolution, scales only
QuantizedLinearConvolution(d, f, scale) ==
    [kind |-> "QuantizedLinearConvolution", data |-> d, filters |-> f,
     geometry |-> Geometry, data_scale |-> scale.data_scale,
     filter_scale |-> scale.filter_scale, output_scale |-> scale.output_scale,
     data_zero_point |-> NullPtr, filter_zero_point |-> NullPtr,
     output_zero_point |-> NullPtr, bias |-> NullPtr]

\* builder::quantization::QuantizedLinearConvolutionBias
QuantizedLinearConvolutionBias(d, f, b, scale) ==
    [kind |-> "QuantizedLinearConvolutionBias", data |-> d, filters |-> f,
     geometry |-> Geometry, data_scale |-> scale.data_scale,
     filter_scale |-> scale.filter_scale, output_scale |-> scale.output_scale,
     data_zero_point |-> NullPtr, filter_zero_point |-> NullPtr,
     output_zero_point |-> NullPtr, bias |-> b]

\* builder::quantization::QuantizedLinearConvolution, scales and zero points
QuantizedLinearConvolutionZP(d, f, ds, dzp, fs, fzp, os, ozp) ==
    [kind |-> "QuantizedLinearConvolutionZP", data |-> d, filters |-> f,
     geometry |-> Geometry, data_scale |-> ds, filter_scale |-> fs,
     output_scale |-> os, data_zero_point |-> dzp, filter_zero_point |-> fzp,
     output_zero_point |-> ozp, bias |-> NullPtr]

\* std::make_shared<ngraph::op::Concat>(nodes, axis)
Concat(nodes, axis) == [nodes |-> nodes, axis |-> axis]

\* ------------------------------------------------------------ conditions
\* first ASSERT_VALID_ARGUMENT; && short-circuits, so a negative groups is
\* never converted to an unsigned value
GroupInRange(g, n_data, n_filters) ==
    (g >= 0) /\ (g <= n_data) /\ (g <= n_filters)

DataChannelsDivisible_always(n, g) == TRUE

\* n_data_channels % groups == 0, groups # 0
DataChannelsDivisible(n, g) == n % g = 0

FilterChannelsDivisible_always(n, g) == TRUE

\* n_filters_channels % groups == 0, groups # 0
FilterChannelsDivisible(n, g) == n % g = 0

HasBias_sizeOnly(ins) == Len(ins) = 9

\* inputs.size() == 9 && !inputs.at(8)->is_null()
HasBias(ins) == Len(ins) = 9 /\ ~ins[9].is_null

\* filters->get_element_type() == element::u8 && groups == 1
FastPathEligible(ftype, g) == ftype = "u8" /\ g = 1

UseGroups_fromOne(g) == g >= 1

\* if (groups > 1)
UseGroups(g) == g > 1

LoopContinues_offByOne(i, g) == i < g - 1

\* group < groups
LoopContinues(i, g) == i < g

\* n_channels / groups
GroupSize(n, g) == n \div g

LowerBound_unscaled(i, size) == i

\* group * group_size
LowerBound(i, size) == i * size

\* (group + 1) * group_size
UpperBound(i, size) == (i + 1) * size

MakeOpScale_swapped(ds, fs, os) == OpScale(fs, ds, os)

\* OpScale{data_scale, filters_scale, output_scale}
MakeOpScale(ds, fs, os) == OpScale(ds, fs, os)

data_slice_axis == 1
filters_slice_axis == 0
concatenation_axis_zero == filters_slice_axis
concatenation_axis == 1

n_data_channels == dataShape[2]
n_filters_channels == filterShape[1]

\* ------------------------------------------------------------------ Init
Init ==
    /\ pc = "assert_group"
    /\ groups \in (0 - MaxNegGroups)..MaxGroups
    /\ \E n \in {8, 9}, nullBias \in BOOLEAN, ds, fs, os \in 1..MaxScale :
          /\ (n = 8 => ~nullBias)
          /\ inputs = [i \in 1..n |->
                        [pos |-> i - 1,
                         val |-> CASE i = 2 -> ds [] i = 5 -> fs [] i = 7 -> os
                                   [] OTHER -> 0,
                         is_null |-> (i = 9 /\ nullBias)]]
    /\ \E c \in 0..MaxChannels : dataShape = <<1, c, 3>>
    /\ \E o \in 0..MaxChannels : filterShape = <<o, 1, 2>>
    /\ filterType \in {"u8", "i8"}
    /\ attr_strides \in 1..MaxStride
    /\ op_scale = NoScale
    /\ bias = NullPtr
    /\ group = 0
    /\ data_lower_bounds = <<>>
    /\ data_upper_bounds = <<>>
    /\ filters_lower_bounds = <<>>
    /\ filters_upper_bounds = <<>>
    /\ sliced_data = NoTensor
    /\ sliced_filters = NoTensor
    /\ convolution_nodes = <<>>
    /\ slices = <<>>
    /\ calls = <<>>
    /\ concats = <<>>
    /\ conv_node = <<>>
    /\ leaves = {}
    /\ dispatched = FALSE

inputVars == <<groups, inputs, dataShape, filterShape, filterType, attr_strides>>
loopVars == <<group, data_lower_bounds, data_upper_bounds, filters_lower_bounds,
              filters_upper_bounds, sliced_data, sliced_filters,
              convolution_nodes>>
graphVars == <<slices, calls, concats, conv_node>>

\* --------------------------------------------------------------- actions
\* quant_conv, first ASSERT_VALID_ARGUMENT
AssertGroupRange ==
    /\ pc = "assert_group"
    /\ pc' = IF GroupInRange(groups, n_data_channels, n_filters_channels)
             THEN "assert_data_channels" ELSE "validation_error"
    /\ UNCHANGED <<inputVars, op_scale, bias, loopVars, graphVars, leaves,
                   dispatched>>

\* quant_conv, second ASSERT_VALID_ARGUMENT.  With groups = 0 the remainder
\* is undefined: the build may trap, or yield a value that passes or fails.
AssertDataChannels ==
    /\ pc = "assert_data_channels"
    /\ IF groups = 0
       THEN pc' \in {"ub_trap", "assert_filter_channels", "validation_error"}
       ELSE pc' = IF DataChannelsDivisible(n_data_channels, groups)
                  THEN "assert_filter_channels" ELSE "validation_error"
    /\ UNCHANGED <<inputVars, op_scale, bias, loopVars, graphVars, leaves,
                   dispatched>>

\* quant_conv, third ASSERT_VALID_ARGUMENT
AssertFilterChannels ==
    /\ pc = "assert_filter_channels"
    /\ IF groups = 0
       THEN pc' \in {"ub_trap", "dispatch", "validation_error"}
       ELSE pc' = IF FilterChannelsDivisible(n_filters_channels, groups)
                  THEN "dispatch" ELSE "validation_error"
    /\ UNCHANGED <<inputVars, op_scale, bias, loopVars, graphVars, leaves,
                   dispatched>>

\* quant_conv, bias branch: make_ng_quant_conv(..., OpScale{...}, bias)
DispatchBias ==
    /\ pc = "dispatch"
    /\ HasBias(inputs)
    /\ dispatched' = TRUE
    /\ bias' = InputAt(8)
    /\ op_scale' = MakeOpScale(InputAt(1), InputAt(4), InputAt(6))
    /\ pc' = "make_ng_quant_conv"
    /\ UNCHANGED <<inputVars, loopVars, graphVars, leaves>>

\* quant_conv, u8 filters and groups == 1: the builder taking zero points
DispatchFastPath ==
    /\ pc = "dispatch"
    /\ ~HasBias(inputs)
    /\ FastPathEligible(filterType, groups)
    /\ dispatched' = TRUE
    /\ leaves' = leaves \cup {"zero_point"}
    /\ LET n == QuantizedLinearConvolutionZP(
                    Whole(InputAt(0), dataShape), Whole(InputAt(3), filterShape),
                    InputAt(1), InputAt(2), InputAt(4), InputAt(5),
                    InputAt(6), InputAt(7))
       IN /\ calls' = Append(calls, n)
          /\ conv_node' = <<n>>
    /\ pc' = "done"
    /\ UNCHANGED <<inputVars, op_scale, bias, loopVars, slices, concats>>

\* quant_conv, remaining branch: make_ng_quant_conv(..., OpScale{...})
DispatchGeneral ==
    /\ pc = "dispatch"
    /\ ~HasBias(inputs)
    /\ ~FastPathEligible(filterType, groups)
    /\ dispatched' = TRUE
    /\ bias' = NullPtr
    /\ op_scale' = MakeOpScale(InputAt(1), InputAt(4), InputAt(6))
    /\ pc' = "make_ng_quant_conv"
    /\ UNCHANGED <<inputVars, loopVars, graphVars, leaves>>

\* make_ng_quant_conv, groups > 1: sizes and initial bounds
EnterGroups ==
    /\ pc = "make_ng_quant_conv"
    /\ UseGroups(groups)
    /\ leaves' = leaves \cup {"grouped"}
    /\ data_lower_bounds' = Zeros(Len(dataShape))
    /\ data_upper_bounds' = dataShape
    /\ filters_lower_bounds' = Zeros(Len(filterShape))
    /\ filters_upper_bounds' = filterShape
    /\ group' = 0
    /\ convolution_nodes' = <<>>
    /\ pc' = "loop"
    /\ UNCHANGED <<inputVars, op_scale, bias, sliced_data, sliced_filters,
                   graphVars, dispatched>>

\* group loop: slice data and slice filters
SliceGroup ==
    /\ pc = "loop"
    /\ LoopContinues(group, groups)
    /\ LET data_group_size == GroupSize(n_data_channels, groups)
           filters_group_size == GroupSize(n_filters_channels, groups)
           dl == [data_lower_bounds EXCEPT
                    ![data_slice_axis + 1] = LowerBound(group, data_group_size)]
           du == [data_upper_bounds EXCEPT
                    ![data_slice_axis + 1] = UpperBound(group, data_group_size)]
           fl == [filters_lower_bounds EXCEPT
                    ![filters_slice_axis + 1] = LowerBound(group, filters_group_size)]
           fu == [filters_upper_bounds EXCEPT
                    ![filters_slice_axis + 1] = UpperBound(group, filters_group_size)]
       IN /\ data_lower_bounds' = dl
          /\ data_upper_bounds' = du
          /\ filters_lower_bounds' = fl
          /\ filters_upper_bounds' = fu
          /\ sliced_data' = Slice(InputAt(0), dl, du)
          /\ sliced_filters' = Slice(InputAt(3), fl, fu)
          /\ slices' = slices \o <<Slice(InputAt(0), dl, du),
                                   Slice(InputAt(3), fl, fu)>>
    /\ pc' = "loop_body"
    /\ UNCHANGED <<inputVars, op_scale, bias, group, convolution_nodes, calls,
                   concats, conv_node, leaves, dispatched>>

GroupBiasThrow_afterEmit ==
    /\ pc = "loop_body"
    /\ bias # NullPtr
    /\ calls' = Append(calls,
                 QuantizedLinearConvolution(sliced_data, sliced_filters, op_scale))
    /\ pc' = "not_supported"
    /\ UNCHANGED <<inputVars, op_scale, bias, loopVars, slices, concats,
                   conv_node, leaves, dispatched>>

\* group loop: if (bias) throw error::NotSupported
GroupBiasThrow ==
    /\ pc = "loop_body"
    /\ bias # NullPtr
    /\ pc' = "not_supported"
    /\ UNCHANGED <<inputVars, op_scale, bias, loopVars, graphVars, leaves,
                   dispatched>>

\* group loop: convolution_nodes.push_back(QuantizedLinearConvolution(...))
GroupEmit ==
    /\ pc = "loop_body"
    /\ bias = NullPtr
    /\ LET n == QuantizedLinearConvolution(sliced_data, sliced_filters, op_scale)
       IN /\ convolution_nodes' = Append(convolution_nodes, n)
          /\ calls' = Append(calls, n)
    /\ group' = group + 1
    /\ pc' = "loop"
    /\ UNCHANGED <<inputVars, op_scale, bias, data_lower_bounds,
                   data_upper_bounds, filters_lower_bounds, filters_upper_bounds,
                   sliced_data, sliced_filters, slices, concats, conv_node,
                   leaves, dispatched>>

\* after the loop: Concat(convolution_nodes, concatenation_axis)
ConcatGroups ==
    /\ pc = "loop"
    /\ ~LoopContinues(group, groups)
    /\ LET n == Concat(convolution_nodes, concatenation_axis)
       IN /\ concats' = Append(concats, n)
          /\ conv_node' = <<n>>
    /\ pc' = "done"
    /\ UNCHANGED <<inputVars, op_scale, bias, loopVars, slices, calls, leaves,
                   dispatched>>

\* make_ng_quant_conv, groups <= 1 with bias
SingleBias ==
    /\ pc = "make_ng_quant_conv"
    /\ ~UseGroups(groups)
    /\ bias # NullPtr
    /\ leaves' = leaves \cup {"bias_fused"}
    /\ LET n == QuantizedLinearConvolutionBias(
                    Whole(InputAt(0), dataShape), Whole(InputAt(3), filterShape),
                    bias, op_scale)
       IN /\ calls' = Append(calls, n)
          /\ conv_node' = <<n>>
    /\ pc' = "done"
    /\ UNCHANGED <<inputVars, op_scale, bias, loopVars, slices, concats,
                   dispatched>>

\* make_ng_quant_conv, groups <= 1 without bias
SinglePlain ==
    /\ pc = "make_ng_quant_conv"
    /\ ~UseGroups(groups)
    /\ bias = NullPtr
    /\ leaves' = leaves \cup {"plain"}
    /\ LET n == QuantizedLinearConvolution(
                    Whole(InputAt(0), dataShape), Whole(InputAt(3), filterShape),
                    op_scale)
       IN /\ calls' = Append(calls, n)
          /\ conv_node' = <<n>>
    /\ pc' = "done"
    /\ UNCHANGED <<inputVars, op_scale, bias, loopVars, slices, concats,
                   dispatched>>

Next ==
    \/ AssertGroupRange
    \/ AssertDataChannels
    \/ AssertFilterChannels
    \/ DispatchBias
    \/ DispatchFastPath
    \/ DispatchGeneral
    \/ EnterGroups
    \/ SliceGroup
    \/ GroupBiasThrow
    \/ GroupEmit
    \/ ConcatGroups
    \/ SingleBias
    \/ SinglePlain

Spec == Init /\ [][Next]_vars

\* ------------------------------------------------------------ properties
BiasPresent == Len(inputs) = 9 /\ ~inputs[9].is_null

DataChannels == dataShape[2]
FilterOutputChannels == filterShape[1]

ValidGroupCount ==
    /\ groups >= 1
    /\ groups <= DataChannels
    /\ groups <= FilterOutputChannels
    /\ DataChannels % groups = 0
    /\ FilterOutputChannels % groups = 0

Terminal == pc \in {"done", "validation_error", "not_supported", "ub_trap"}

BeforeDispatch == pc \in {"assert_group", "assert_data_channels",
                          "assert_filter_channels", "validation_error"}

\* C1 as stated: with g == 1 a u8 filter always takes the zero-point call,
\* bias or not; the bias-fused call only without u8 and with a bias; the
\* plain call only when neither holds.
C1_AsStated ==
    (pc = "done" /\ groups = 1) =>
        /\ (filterType = "u8" => leaves = {"zero_point"})
        /\ (filterType # "u8" /\ BiasPresent => leaves = {"bias_fused"})
        /\ (filterType # "u8" /\ ~BiasPresent => leaves = {"plain"})

\* C1 amended: with g == 1 a present bias always selects the bias-fused call,
\* whatever the filter type; the zero-point call (scales plus the three zero
\* points, inputs 2, 5 and 7) is emitted only without a bias and with a u8
\* filter; the plain scales-only call when there is no bias and no u8 filter.
C1_PathSelection ==
    (pc = "done" /\ groups = 1) =>
        /\ Len(calls) = 1
        /\ BiasPresent =>
              /\ leaves = {"bias_fused"}
              /\ calls[1].kind = "QuantizedLinearConvolutionBias"
              /\ calls[1].bias = inputs[9]
        /\ (~BiasPresent /\ filterType = "u8") =>
              /\ leaves = {"zero_point"}
              /\ calls[1].kind = "QuantizedLinearConvolutionZP"
              /\ calls[1].data_zero_point = inputs[3]
              /\ calls[1].filter_zero_point = inputs[6]
              /\ calls[1].output_zero_point = inputs[8]
              /\ calls[1].data_scale = inputs[2]
              /\ calls[1].filter_scale = inputs[5]
              /\ calls[1].output_scale = inputs[7]
        /\ (~BiasPresent /\ filterType # "u8") =>
              /\ leaves = {"plain"}
              /\ calls[1].kind = "QuantizedLinearConvolution"
              /\ calls[1].data_zero_point = NullPtr

C1_Witness ==
    pc = "done" /\ groups = 1 /\ BiasPresent /\ filterType = "u8"
        /\ leaves = {"bias_fused"}

\* C2: g > 1 with a bias and a valid group count ends in NotSupported, never
\* in a validation error, for every filter type, and neither a quantized
\* convolution call nor a Concat node exists at any point of the call.
C2_GroupedBiasNotSupported ==
    (groups > 1 /\ BiasPresent /\ ValidGroupCount) =>
        /\ calls = <<>>
        /\ concats = <<>>
        /\ conv_node = <<>>
        /\ Terminal => pc = "not_supported"

C2_Witness ==
    pc = "not_supported" /\ groups > 1 /\ BiasPresent /\ filterType = "u8"
        /\ Len(slices) = 2

\* C3 as stated: a group count below 1 (0 or negative) is rejected by the
\* group-count check, so the call never gets past it to a modulo by g.
C3_GroupBelowOneRejected ==
    groups < 1 => pc \in {"assert_group", "validation_error"}

\* C4: with g >= 1 the call ends in a validation error (and never reaches the
\* dispatch) exactly when g exceeds a channel count or does not divide one.
C4_ValidationIffInvalid ==
    groups >= 1 =>
        /\ ~ValidGroupCount => BeforeDispatch
        /\ ~ValidGroupCount /\ Terminal => pc = "validation_error"
        /\ ValidGroupCount => pc # "validation_error"

C4_Witness ==
    pc = "validation_error" /\ groups = 3 /\ DataChannels = 8
        /\ FilterOutputChannels = 6

\* C5: a call that ends in a validation error has built no Slice, no
\* quantized convolution and no Concat and has not entered the dispatch; g > 1
\* with a bias and a non-divisible channel count never reports NotSupported.
C5_ValidationBeforeDispatch ==
    /\ pc = "validation_error" =>
          /\ slices = <<>>
          /\ calls = <<>>
          /\ concats = <<>>
          /\ conv_node = <<>>
          /\ leaves = {}
          /\ ~dispatched
    /\ (groups > 1 /\ BiasPresent /\ ~ValidGroupCount) =>
          /\ pc # "not_supported"
          /\ ~dispatched

C5_Witness ==
    pc = "validation_error" /\ groups > 1 /\ BiasPresent
        /\ groups <= DataChannels /\ DataChannels % groups = 0
        /\ groups <= FilterOutputChannels /\ FilterOutputChannels % groups # 0

\* C6: a call that passed validation runs exactly one of the four leaves, and
\* with g == 1 that leaf is one of the three single-call leaves: one
\* primitive call, no Slice, no Concat.
C6_ExactlyOneLeaf ==
    /\ Cardinality(leaves) <= 1
    /\ leaves \subseteq {"grouped", "zero_point", "bias_fused", "plain"}
    /\ (dispatched /\ pc \in {"done", "not_supported"}) =>
          /\ Cardinality(leaves) = 1
          /\ groups = 1 =>
                /\ "grouped" \notin leaves
                /\ Len(calls) = 1
                /\ slices = <<>>
                /\ concats = <<>>
          /\ groups > 1 => leaves = {"grouped"}

C6_Witness ==
    pc = "done" /\ groups = 1 /\ BiasPresent /\ filterType = "i8"
        /\ leaves = {"bias_fused"} /\ Len(calls) = 1

RECURSIVE SumExtent(_, _)
SumExtent(ss, ix) ==
    IF ss = <<>> THEN 0
    ELSE (Head(ss).upper[ix] - Head(ss).lower[ix]) + SumExtent(Tail(ss), ix)

DataSlices == [i \in 1..(Len(slices) \div 2) |-> slices[2 * i - 1]]
FilterSlices == [i \in 1..(Len(slices) \div 2) |-> slices[2 * i]]

\* C7: valid g > 1 without bias: group i slices data to
\* [i*dc/g, (i+1)*dc/g) on axis 1 and filters to [i*fc/g, (i+1)*fc/g) on axis 0,
\* every other dimension in full; the g ranges are pairwise disjoint and their
\* sizes add up to the channel count.
C7_SliceRanges ==
    (groups > 1 /\ ~BiasPresent /\ leaves = {"grouped"}) =>
        /\ \A i \in 0..(Len(slices) \div 2 - 1) :
              /\ DataSlices[i + 1] =
                    [node |-> inputs[1], sliced |-> TRUE,
                     lower |-> <<0, (i * DataChannels) \div groups, 0>>,
                     upper |-> <<dataShape[1],
                                 ((i + 1) * DataChannels) \div groups,
                                 dataShape[3]>>]
              /\ FilterSlices[i + 1] =
                    [node |-> inputs[4], sliced |-> TRUE,
                     lower |-> <<(i * FilterOutputChannels) \div groups, 0, 0>>,
                     upper |-> <<((i + 1) * FilterOutputChannels) \div groups,
                                 filterShape[2], filterShape[3]>>]
        /\ \A i, j \in 1..(Len(slices) \div 2) :
              i < j => /\ DataSlices[i].upper[2] <= DataSlices[j].lower[2]
                       /\ DataSlices[i].lower[2] < DataSlices[i].upper[2]
                       /\ FilterSlices[i].upper[1] <= FilterSlices[j].lower[1]
                       /\ FilterSlices[i].lower[1] < FilterSlices[i].upper[1]
        /\ pc = "done" =>
              /\ Len(slices) = 2 * groups
              /\ SumExtent(DataSlices, 2) = DataChannels
              /\ SumExtent(FilterSlices, 1) = FilterOutputChannels

C7_Witness ==
    pc = "done" /\ groups = 2 /\ DataChannels = 8 /\ FilterOutputChannels = 8
        /\ ~BiasPresent
        /\ DataSlices[1].lower[2] = 0 /\ DataSlices[1].upper[2] = 4
        /\ DataSlices[2].lower[2] = 4 /\ DataSlices[2].upper[2] = 8

\* output channels of one convolution = extent of its filters on axis 0
RECURSIVE SumOutputChannels(_)
SumOutputChannels(nodes) ==
    IF nodes = <<>> THEN 0
    ELSE (Head(nodes).filters.upper[1] - Head(nodes).filters.lower[1])
            + SumOutputChannels(Tail(nodes))

\* C8: valid g > 1 without bias: exactly g primitive calls in ascending group
\* order, one Concat over them in that order, and the assembled channel count
\* equals the unsplit filter's output-channel count.
C8_GroupedAssembly ==
    (pc = "done" /\ groups > 1) =>
        /\ Len(calls) = groups
        /\ \A i \in 1..Len(calls) :
              /\ calls[i].kind = "QuantizedLinearConvolution"
              /\ calls[i].data = slices[2 * i - 1]
              /\ calls[i].filters = slices[2 * i]
              /\ calls[i].filters.lower[1] =
                    ((i - 1) * FilterOutputChannels) \div groups
        /\ Len(concats) = 1
        /\ concats[1].nodes = calls
        /\ conv_node = <<concats[1]>>
        /\ SumOutputChannels(concats[1].nodes) = FilterOutputChannels

C8_Witness ==
    pc = "done" /\ groups = 3 /\ FilterOutputChannels = 6 /\ DataChannels = 3
        /\ Len(calls) = 3 /\ Len(concats) = 1

\* C9: every per-group primitive call gets the data, filter and output scale
\* of operator inputs 1, 4 and 6 and the same strides, dilations and paddings.
C9_SharedScales ==
    leaves = {"grouped"} =>
        \A i \in 1..Len(calls) :
            /\ calls[i].data_scale = inputs[2]
            /\ calls[i].filter_scale = inputs[5]
            /\ calls[i].output_scale = inputs[7]
            /\ calls[i].geometry = calls[1].geometry
            /\ calls[i].geometry.strides = <<attr_strides>>

C9_Witness ==
    pc = "done" /\ groups >= 2 /\ Len(calls) = groups
        /\ inputs[2].val # inputs[5].val /\ inputs[5].val # inputs[7].val

\* the axes (C++ index) on which a slice is narrower than its source
SlicedAxes(s, shape) ==
    {k \in 0..(Len(shape) - 1) :
        s.lower[k + 1] # 0 \/ s.upper[k + 1] # shape[k + 1]}

\* C10 as stated: the Concat axis index is the axis index the filters are
\* sliced on.
C10_AsStated ==
    (pc = "done" /\ leaves = {"grouped"}) =>
        \A i \in 1..Len(FilterSlices) :
            SlicedAxes(FilterSlices[i], filterShape) = {concats[1].axis}

\* C10 amended: the Concat axis is index 1, the output channel axis, which is
\* the index the data is sliced on; the filters are sliced on index 0.
C10_ConcatAxis ==
    (pc = "done" /\ leaves = {"grouped"}) =>
        /\ concats[1].axis = 1
        /\ \A i \in 1..Len(FilterSlices) :
              /\ SlicedAxes(FilterSlices[i], filterShape) = {0}
              /\ SlicedAxes(DataSlices[i], dataShape) = {concats[1].axis}

C10_Witness ==
    pc = "done" /\ leaves = {"grouped"} /\ Len(concats) = 1
        /\ Len(FilterSlices) = groups

====
